---- MODULE Spec2Model ----
(***************************************************************************)
(* Model of the Luminous Candles checkout backend (src/main.py): the       *)
(* in-memory order store ORDERS_DB and the three business handlers         *)
(* create_checkout_session, get_order and payment_success, with the        *)
(* payment processor, the mail service and the label renderer as           *)
(* environment calls whose outcome is chosen nondeterministically.         *)
(*                                                                         *)
(* Amounts are Python floats (IEEE-754 binary64).  A float is modelled     *)
(* exactly: a non-negative double x is the natural number x * 2^Frac,      *)
(* held as a little-endian sequence of limbs in base 2^15, and every       *)
(* arithmetic result is rounded to 53 significant bits, ties to even, as   *)
(* the hardware does.  Every float the handlers compute on the inputs of   *)
(* this model lies in [2^-21, 2^40), where all doubles are multiples of    *)
(* 2^-Frac, so the representation loses nothing.                           *)
(***************************************************************************)
EXTENDS Integers, Sequences, FiniteSets, TLC

\* ---------------------------------------------------------------------
\* Natural numbers of arbitrary size (limbs, least significant first)
\* ---------------------------------------------------------------------
Base == 2^15
FracLimbs == 5
Mantissa == 53

Limb(a, i) == IF i <= Len(a) THEN a[i] ELSE 0

RECURSIVE BNorm(_)
BNorm(a) ==
    IF a = <<>> THEN a
    ELSE IF a[Len(a)] = 0 THEN BNorm(SubSeq(a, 1, Len(a) - 1))
    ELSE a

BFromInt(n) ==
    BNorm(<<n % Base, (n \div Base) % Base, n \div (Base * Base)>>)

RECURSIVE BToIntFrom(_, _)
BToIntFrom(a, i) ==
    IF i > Len(a) THEN 0 ELSE a[i] + Base * BToIntFrom(a, i + 1)

BToInt(a) == BToIntFrom(a, 1)

\* the limbs of a + b from limb i up, c being the carry in
RECURSIVE BAddFrom(_, _, _, _)
BAddFrom(a, b, i, c) ==
    IF i > Len(a) /\ i > Len(b)
    THEN (IF c = 0 THEN <<>> ELSE <<c>>)
    ELSE <<(Limb(a, i) + Limb(b, i) + c) % Base>>
         \o BAddFrom(a, b, i + 1, (Limb(a, i) + Limb(b, i) + c) \div Base)

BAdd(a, b) == BNorm(BAddFrom(a, b, 1, 0))

RECURSIVE BMulSmallFrom(_, _, _, _)
BMulSmallFrom(a, k, i, c) ==
    IF i > Len(a)
    THEN (IF c = 0 THEN <<>> ELSE <<c>>)
    ELSE <<(a[i] * k + c) % Base>>
         \o BMulSmallFrom(a, k, i + 1, (a[i] * k + c) \div Base)

\* a * k for 0 <= k < Base
BMulSmall(a, k) == BNorm(BMulSmallFrom(a, k, 1, 0))

Zeros(n) == [i \in 1..n |-> 0]

BShlLimbs(a, n) == IF a = <<>> THEN a ELSE Zeros(n) \o a

RECURSIVE BMulFrom(_, _, _)
BMulFrom(a, b, i) ==
    IF i > Len(b) THEN <<>>
    ELSE BAdd(BShlLimbs(BMulSmall(a, b[i]), i - 1), BMulFrom(a, b, i + 1))

BMul(a, b) == BMulFrom(a, b, 1)

\* long division from the top limb i down: the quotient's limbs, most
\* significant first, followed by the remainder
RECURSIVE BDivFrom(_, _, _, _)
BDivFrom(a, d, i, r) ==
    IF i = 0 THEN <<r>>
    ELSE <<(r * Base + a[i]) \div d>>
         \o BDivFrom(a, d, i - 1, (r * Base + a[i]) % d)

\* quotient and remainder of a by d, 0 < d < Base
QuotRem(res, n) ==
    [q |-> BNorm([j \in 1..n |-> res[n + 1 - j]]), r |-> res[n + 1]]

BDivSmall(a, d) == QuotRem(BDivFrom(a, d, Len(a), 0), Len(a))

RECURSIVE Bits(_)
Bits(n) == IF n = 0 THEN 0 ELSE 1 + Bits(n \div 2)

LimbBits == Bits(Base) - 1
Frac == FracLimbs * LimbBits

BBits(a) == IF a = <<>> THEN 0 ELSE LimbBits * (Len(a) - 1) + Bits(a[Len(a)])

\* a shifted right by s bits; sticky says whether a nonzero bit was dropped
Shifted(d, a, n) ==
    [q |-> d.q,
     sticky |-> (d.r # 0) \/ (\E i \in 1..n : i <= Len(a) /\ a[i] # 0)]

BShr(a, s) ==
    Shifted(BDivSmall(SubSeq(a, s \div LimbBits + 1, Len(a)), 2^(s % LimbBits)),
            a, s \div LimbBits)

BShl(a, s) == BShlLimbs(BMulSmall(a, 2^(s % LimbBits)), s \div LimbBits)

RECURSIVE BCmpFrom(_, _, _)
BCmpFrom(a, b, i) ==
    IF i = 0 THEN 0
    ELSE IF a[i] < b[i] THEN -1
    ELSE IF a[i] > b[i] THEN 1
    ELSE BCmpFrom(a, b, i - 1)

\* -1, 0, 1 as a < b, a = b, a > b (both normalised)
BCmp(a, b) ==
    IF Len(a) < Len(b) THEN -1
    ELSE IF Len(a) > Len(b) THEN 1
    ELSE BCmpFrom(a, b, Len(a))

\* ---------------------------------------------------------------------
\* IEEE-754 binary64 arithmetic on non-negative values
\* ---------------------------------------------------------------------

\* half.q is a value without its dropped low bits, half.r the highest
\* dropped bit, st whether any bit below that one is set: half.q rounded
\* half to even
RoundHalfEven(half, st) ==
    IF half.r = 1 /\ (st \/ Limb(half.q, 1) % 2 = 1)
    THEN BAdd(half.q, <<1>>)
    ELSE half.q

RoundBits(sh, sticky, s) ==
    BShl(RoundHalfEven(BDivSmall(sh.q, 2), sh.sticky \/ sticky), s)

\* v (plus a fraction below one unit iff sticky) rounded to 53 significant
\* bits, round-half-to-even
Round53(v, sticky) ==
    IF BBits(v) <= Mantissa THEN v
    ELSE RoundBits(BShr(v, BBits(v) - Mantissa - 1), sticky, BBits(v) - Mantissa)

FZero == <<>>

\* float(n) for an int n, exact
FromInt(n) == BShlLimbs(BFromInt(n), FracLimbs)

\* the double nearest to the decimal n/d (what parsing the literal gives)
RoundQuot(res) == Round53(res.q, res.r # 0)

FromDec(n, d) == RoundQuot(BDivSmall(FromInt(n), d))

FAdd(a, b) == Round53(BAdd(a, b), FALSE)

\* a * k for a float a and an int k (k converts to float exactly)
FMulInt(a, k) == Round53(BMulSmall(a, k), FALSE)

RoundShifted(sh) == Round53(sh.q, sh.sticky)

FMul(a, b) == RoundShifted(BShr(BMul(a, b), Frac))

FLess(a, b) == BCmp(a, b) < 0
FLeq(a, b)  == BCmp(a, b) <= 0

\* int(a): truncation
Trunc(a) == BToInt(BShr(a, Frac).q)

\* a to two decimals, correctly rounded (half to even on the exact binary
\* value), as an integer number of hundredths: the digits that
\* round(a, 2) and format(a, ".2f") both produce
RoundUnits(sh) == BToInt(RoundHalfEven(BDivSmall(sh.q, 2), sh.sticky))

Hundredths(a) == RoundUnits(BShr(BMulSmall(a, 100), Frac - 1))

\* round(a, 2): the double nearest to that decimal
Round2(a) == FromDec(Hundredths(a), 100)

\* ---------------------------------------------------------------------
\* Request bodies (the pydantic models) and the inputs the model draws
\* ---------------------------------------------------------------------
None == "None"

\* Item: name, price (confloat gt 0, parsed from the decimal literal
\* cents/100), qty (conint gt 0)
Item(name, cents, qty) ==
    [name |-> name, price |-> FromDec(cents, 100), qty |-> qty]

CustomerInfo(fullName, state) ==
    [fullName |-> fullName, email |-> "ann@example.com", phone |-> "0123",
     address |-> "1 High St", city |-> "Leeds", state |-> state,
     zip |-> "LS1", country |-> "GB"]

CandleA   == <<Item("Candle A", 1000, 2)>>
Pillar    == <<Item("Pillar", 1999, 1)>>
Tealights == <<Item("Tealight", 25, 2)>>
Votive    == <<Item("Votive", 49, 1)>>
GiftSet   == <<Item("Gift Set", 2500, 2)>>
GiftPlus  == <<Item("Gift Set", 2500, 2), Item("Tealight", 1, 1)>>
Mixed     == <<Item("Melt", 29, 3), Item("Wick", 110, 1)>>

Carts == {<<>>, CandleA, Pillar, Tealights, Votive, GiftSet, GiftPlus, Mixed}

StateNames ==
    {"California", "New York", "Texas", "Florida", "Illinois", "Nevada",
     "Washington", "california", "Devon"}

Customers == {CustomerInfo("Ann", s) : s \in StateNames}

\* ---------------------------------------------------------------------
\* Pricing (create_checkout_session and create_payment_link)
\* ---------------------------------------------------------------------
tax_rates ==
    [s \in {"California", "New York", "Texas", "Florida", "Illinois",
            "Nevada", "Washington"} |->
        CASE s = "California" -> FromDec(75, 1000)
          [] s = "New York"   -> FromDec(4, 100)
          [] s = "Texas"      -> FromDec(45, 1000)
          [] s = "Florida"    -> FromDec(6, 100)
          [] s = "Illinois"   -> FromDec(625, 10000)
          [] s = "Nevada"     -> FromDec(685, 10000)
          [] s = "Washington" -> FromDec(65, 1000)]

\* table.get(key, default)
Get(table, key, default) ==
    IF key \in DOMAIN table THEN table[key] ELSE default

get_tax_rate_by_state(state) == Get(tax_rates, state, FromDec(7, 100))

\* sum(item.price * item.qty for item in items): left to right from int 0
RECURSIVE SumUpTo(_, _)
SumUpTo(items, n) ==
    IF n = 0 THEN FZero
    ELSE FAdd(SumUpTo(items, n - 1), FMulInt(items[n].price, items[n].qty))

Subtotal(items) == SumUpTo(items, Len(items))

MinimumTotal == FromDec(5, 10)

BelowMinimum_orEqual(subtotal) == FLeq(subtotal, MinimumTotal)

\* subtotal < 0.5
BelowMinimum(subtotal) == FLess(subtotal, MinimumTotal)

TaxFor(subtotal, state) == Round2(FMul(subtotal, get_tax_rate_by_state(state)))

ShippingFor_below(subtotal) ==
    IF FLess(subtotal, FromInt(50)) THEN FromDec(599, 100) ELSE FZero

\* shipping = 5.99 if subtotal <= 50 else 0.0
ShippingFor(subtotal) ==
    IF FLeq(subtotal, FromInt(50)) THEN FromDec(599, 100) ELSE FZero

TotalFor(subtotal, tax, shipping) == Round2(FAdd(FAdd(subtotal, tax), shipping))

\* the locals of create_checkout_session after line 304
Priced(subtotal, tax, shipping) ==
    [subtotal |-> subtotal, tax |-> tax, shipping |-> shipping,
     total |-> TotalFor(subtotal, tax, shipping)]

PricingOf(subtotal, state) ==
    Priced(subtotal, TaxFor(subtotal, state), ShippingFor(subtotal))

Pricing(cart, state) == PricingOf(Subtotal(cart), state)

\* int(a * 100): the amount in minor units, truncated
UnitAmount(a) == Trunc(FMulInt(a, 100))

\* the line_items create_payment_link sends to the processor: one per
\* item, then tax and shipping when they are positive
LineItemsOf(items, tax, shipping) ==
    [i \in 1..Len(items) |->
        [name |-> items[i].name, unit_amount |-> UnitAmount(items[i].price),
         quantity |-> items[i].qty]]
    \o (IF FLess(FZero, tax)
        THEN <<[name |-> "Sales Tax", unit_amount |-> UnitAmount(tax),
                quantity |-> 1]>>
        ELSE <<>>)
    \o (IF FLess(FZero, shipping)
        THEN <<[name |-> "Shipping", unit_amount |-> UnitAmount(shipping),
                quantity |-> 1]>>
        ELSE <<>>)

LineItemsFor(items, subtotal, state) ==
    LineItemsOf(items, TaxFor(subtotal, state), ShippingFor(subtotal))

LineItems(items, customer) ==
    LineItemsFor(items, Subtotal(items), customer.state)

\* The handlers' arithmetic over the model's inputs.  TLC evaluates a
\* constant definition once, so the actions below look the results up.
Quote == [cart \in Carts, state \in StateNames |-> Pricing(cart, state)]

Lines == [cart \in Carts, customer \in Customers |-> LineItems(cart, customer)]

\* the total a client posts: read by no handler
ClientTotals == {FromInt(1), FromDec(2739, 100)}

Items == UNION {{cart[i] : i \in 1..Len(cart)} : cart \in Carts}

Amounts ==
    UNION {{q.subtotal, q.tax, q.shipping, q.total} :
              q \in {Quote[k] : k \in Carts \X StateNames}} \cup ClientTotals

\* format(item["price"] * item["qty"], ".2f"), in hundredths
LineAmount == [item \in Items |-> Hundredths(FMulInt(item.price, item.qty))]

\* format(amount, ".2f"), in hundredths
TwoDecimals == [amount \in Amounts |-> Hundredths(amount)]

\* ---------------------------------------------------------------------
\* State
\* ---------------------------------------------------------------------
VARIABLES
    ORDERS_DB,   \* the order store: checkout id -> order
    task,        \* the requests being handled: position and locals
    http,        \* every request received, with its response once sent
    generated,   \* the ids uuid4 has returned
    stripe,      \* the processor's session-creation calls, by request
    mails,       \* the send_email attempts
    labels       \* the generate_local_label calls

vars == <<ORDERS_DB, task, http, generated, stripe, mails, labels>>

MaxRequests == 3

\* The requests in progress.  A handler is a coroutine that makes its
\* calls to the processor, the mail service and the label renderer without
\* awaiting, so one event loop runs the handlers one after another; the
\* model also lets a second request be taken up while the first waits on
\* such a call, and so includes every serial run.
Tasks == {1, 2}

OrderIds == {"id-a", "id-b"}

\* what the processor does with a session-creation call
Outcomes == {"ok", "StripeError", "Exception"}

NoAmounts == [subtotal |-> FZero, tax |-> FZero, shipping |-> FZero, total |-> FZero]

NoOrder ==
    [id |-> None, customer |-> CustomerInfo("", ""), cart |-> <<>>,
     subtotal |-> FZero, tax |-> FZero, shipping |-> FZero, total |-> FZero]

NoHtml ==
    [fullName |-> "", order_id |-> None, items |-> <<>>, subtotal |-> 0,
     tax |-> 0, shipping |-> 0, total |-> 0]

\* a task's position and the handler's locals; label 0 is None
Idle ==
    [pc |-> "idle", rid |-> 0, checkout_id |-> None, amounts |-> NoAmounts,
     order |-> NoOrder, html |-> NoHtml, label |-> 0]

NoResponse == [status_code |-> 0, body |-> None]

Init ==
    /\ ORDERS_DB = <<>>
    /\ task = [t \in Tasks |-> Idle]
    /\ http = <<>>
    /\ generated = {}
    /\ stripe = <<>>
    /\ mails = {}
    /\ labels = {}

Request(handler, customer, cart, total, checkoutId) ==
    [handler |-> handler, customer |-> customer, cart |-> cart,
     total |-> total, checkoutId |-> checkoutId,
     client_email |-> "client@example.com"]

\* the request a task takes up gets the next number; db_keys records the
\* keys of ORDERS_DB when the handler started
Received(request) ==
    Append(http, [request |-> request, db_keys |-> DOMAIN ORDERS_DB,
                  response |-> NoResponse])

Respond(log, rid, status_code, body) ==
    [log EXCEPT ![rid].response = [status_code |-> status_code, body |-> body]]

HTTPException(status_code, detail) ==
    [status_code |-> status_code, detail |-> detail]

\* str(e) of an HTTPException: its status and detail
Str(e) == <<e.status_code, e.detail>>

\* the response FastAPI sends for an HTTPException
Raise(log, rid, e) == Respond(log, rid, e.status_code, [detail |-> e.detail])

\* ---------------------------------------------------------------------
\* POST /create-checkout-session
\* ---------------------------------------------------------------------

CheckoutFailure_asRaised(e) == e

\* the except clause of create_checkout_session: every exception leaves
\* as a 400 carrying str(e)
CheckoutFailure(e) == HTTPException(400, Str(e))

\* what create_payment_link returns or raises once the processor answered
create_payment_link(outcome, checkout_id) ==
    CASE outcome = "ok" ->
            [raised |-> FALSE, url |-> <<"session", checkout_id>>,
             error |-> HTTPException(0, "")]
      [] outcome = "StripeError" ->
            [raised |-> TRUE, url |-> <<>>,
             error |-> HTTPException(400, "processor message")]
      [] OTHER ->
            [raised |-> TRUE, url |-> <<>>,
             error |-> HTTPException(500, "exception text")]

NewIds_any == OrderIds

\* uuid.uuid4(): an id never returned before
NewIds == OrderIds \ generated

\* the handler from its start to the processor call it blocks on
CheckoutBegin(t, customer, cart, total) ==
    /\ task[t].pc = "idle"
    /\ LET rid == Len(http) + 1
           log == Received(Request("create_checkout_session", customer, cart,
                                   total, None))
           q   == Quote[cart, customer.state]
       IN  IF BelowMinimum(q.subtotal)
           THEN /\ http' = Raise(log, rid, CheckoutFailure(
                      HTTPException(400, "Order total must be at least 0.50")))
                /\ UNCHANGED <<ORDERS_DB, task, generated, stripe>>
           ELSE \E checkout_id \in NewIds :
                /\ http' = log
                /\ generated' = generated \cup {checkout_id}
                /\ stripe' = stripe @@ (rid :>
                      [checkout_id |-> checkout_id,
                       line_items  |-> Lines[cart, customer],
                       stored      |-> checkout_id \in DOMAIN ORDERS_DB,
                       outcome     |-> "pending"])
                /\ task' = [task EXCEPT ![t] =
                      [Idle EXCEPT !.pc = "stripe", !.rid = rid,
                                   !.checkout_id = checkout_id, !.amounts = q]]
                /\ UNCHANGED ORDERS_DB
    /\ UNCHANGED <<mails, labels>>

\* the record create_checkout_session stores
NewOrder(checkout_id, request, amounts) ==
    [id |-> checkout_id, customer |-> request.customer, cart |-> request.cart,
     subtotal |-> amounts.subtotal, tax |-> amounts.tax,
     shipping |-> amounts.shipping, total |-> amounts.total]

Store_only(db, checkout_id, order) == [k \in {checkout_id} |-> order]

\* ORDERS_DB[checkout_id] = order
Store(db, checkout_id, order) ==
    [k \in DOMAIN db \cup {checkout_id} |->
        IF k = checkout_id THEN order ELSE db[k]]

\* the processor answers: the order is stored and the url returned, or
\* the error leaves through the except clause
CheckoutFinish(t, outcome) ==
    /\ task[t].pc = "stripe"
    /\ LET rid    == task[t].rid
           result == create_payment_link(outcome, task[t].checkout_id)
       IN  /\ stripe' = [stripe EXCEPT ![rid].outcome = outcome]
           /\ IF result.raised
              THEN /\ http' = Raise(http, rid, CheckoutFailure(result.error))
                   /\ UNCHANGED ORDERS_DB
              ELSE /\ ORDERS_DB' = Store(ORDERS_DB, task[t].checkout_id,
                         NewOrder(task[t].checkout_id, http[rid].request,
                                  task[t].amounts))
                   /\ http' = Respond(http, rid, 200, [url |-> result.url])
    /\ task' = [task EXCEPT ![t] = Idle]
    /\ UNCHANGED <<generated, mails, labels>>

\* ---------------------------------------------------------------------
\* GET /order/{checkout_id}
\* ---------------------------------------------------------------------
PathIds == OrderIds \cup {"id-x"}

\* the response of get_order in the current state
get_order(checkout_id) ==
    IF checkout_id \in DOMAIN ORDERS_DB
    THEN [status_code |-> 200, body |-> ORDERS_DB[checkout_id]]
    ELSE [status_code |-> 404, body |-> [detail |-> "Order not found"]]

GetOrder(t, checkout_id) ==
    /\ task[t].pc = "idle"
    /\ LET rid == Len(http) + 1
           log == Received(Request("get_order", CustomerInfo("", ""), <<>>,
                                   FZero, checkout_id))
           res == get_order(checkout_id)
       IN  http' = Respond(log, rid, res.status_code, res.body)
    /\ UNCHANGED <<ORDERS_DB, task, generated, stripe, mails, labels>>

\* ---------------------------------------------------------------------
\* POST /payment-success
\* ---------------------------------------------------------------------
ADMIN_EMAIL == "admin@example.com"

OrderKnown_given(checkoutId) == ~(checkoutId = None \/ checkoutId = "")

OrderKnown_once(checkoutId) ==
    /\ ~(checkoutId = None \/ checkoutId = "")
    /\ checkoutId \in DOMAIN ORDERS_DB
    /\ \A m \in mails : m.html.order_id # checkoutId

\* the guard of payment_success: checkoutId given, non-empty and a key
OrderKnown(checkoutId) ==
    /\ ~(checkoutId = None \/ checkoutId = "")
    /\ checkoutId \in DOMAIN ORDERS_DB

ReceiptHtml_client(order, request) ==
    [fullName |-> request.customer.fullName,
     order_id |-> request.checkoutId,
     items    |-> [i \in 1..Len(request.cart) |->
                     [qty    |-> request.cart[i].qty,
                      name   |-> request.cart[i].name,
                      amount |-> LineAmount[request.cart[i]]]],
     subtotal |-> TwoDecimals[order.subtotal],
     tax      |-> TwoDecimals[order.tax],
     shipping |-> TwoDecimals[order.shipping],
     total    |-> TwoDecimals[request.total]]

\* the receipt: the f-string of payment_success, amounts formatted .2f
\* (given here in hundredths)
ReceiptHtml(order, request) ==
    [fullName |-> request.customer.fullName,
     order_id |-> request.checkoutId,
     items    |-> [i \in 1..Len(order.cart) |->
                     [qty    |-> order.cart[i].qty,
                      name   |-> order.cart[i].name,
                      amount |-> LineAmount[order.cart[i]]]],
     subtotal |-> TwoDecimals[order.subtotal],
     tax      |-> TwoDecimals[order.tax],
     shipping |-> TwoDecimals[order.shipping],
     total    |-> TwoDecimals[order.total]]

\* one send_email call: attachments is the list passed (<<>> for None),
\* attached the files read into the message, sent the value returned
send_email(rid, to_email, subject, order_id, html, attachments, readable, sent) ==
    [rid |-> rid, to_email |-> to_email, subject |-> subject,
     order_id |-> order_id, html |-> html, attachments |-> attachments,
     attached |-> IF readable THEN attachments ELSE <<>>, sent |-> sent]

\* generate_local_label: the temporary file written, or None (0)
generate_local_label(rid, rendered) == IF rendered THEN rid ELSE 0

AdminAttachments_always(label) == <<label>>

\* [label] if label else None
AdminAttachments(label) == IF label # 0 THEN <<label>> ELSE <<>>

\* the handler up to the return of the customer's send_email
PaymentSuccessBegin(t, request, sent) ==
    /\ task[t].pc = "idle"
    /\ LET rid == Len(http) + 1
           log == Received(request)
       IN  IF ~OrderKnown(request.checkoutId)
           THEN /\ http' = Raise(log, rid, HTTPException(404, "Order not found"))
                /\ UNCHANGED <<task, mails>>
           ELSE IF request.checkoutId \notin DOMAIN ORDERS_DB
           THEN \* ORDERS_DB[req.checkoutId] raises KeyError
                /\ http' = Raise(log, rid, HTTPException(500, "Internal Server Error"))
                /\ UNCHANGED <<task, mails>>
           ELSE LET order == ORDERS_DB[request.checkoutId]
                    html  == ReceiptHtml(order, request)
                IN  /\ http' = log
                    /\ mails' = mails \cup
                          {send_email(rid, request.client_email,
                                      "Your Order Confirmation", None, html,
                                      <<>>, TRUE, sent)}
                    /\ task' = [task EXCEPT ![t] =
                          [Idle EXCEPT !.pc = "label", !.rid = rid,
                                       !.order = order, !.html = html]]
    /\ UNCHANGED <<ORDERS_DB, generated, stripe, labels>>

PaymentSuccessLabel(t, rendered) ==
    /\ task[t].pc = "label"
    /\ LET label == generate_local_label(task[t].rid, rendered)
       IN  /\ labels' = labels \cup
                 {[rid |-> task[t].rid, order_id |-> task[t].html.order_id,
                   label |-> label]}
           /\ task' = [task EXCEPT ![t].pc = "admin", ![t].label = label]
    /\ UNCHANGED <<ORDERS_DB, http, generated, stripe, mails>>

PaymentSuccessAdmin(t, readable, sent) ==
    /\ task[t].pc = "admin"
    /\ mails' = mails \cup
          {send_email(task[t].rid, ADMIN_EMAIL, "New Order",
                      task[t].html.order_id, task[t].html,
                      AdminAttachments(task[t].label), readable, sent)}
    /\ http' = Respond(http, task[t].rid, 200,
          [status |-> "success", message |-> "Order confirmed and emails sent"])
    /\ task' = [task EXCEPT ![t] = Idle]
    /\ UNCHANGED <<ORDERS_DB, generated, stripe, labels>>

\* ---------------------------------------------------------------------
\* Specifications
\* ---------------------------------------------------------------------
\* the checkouts posted: one cart exactly at the minimum, one below it
LifeCarts == {Tealights, Votive}

LifeCustomers == {CustomerInfo("Ann", "Devon")}

\* the bodies payment_success is posted with: cart and total are the
\* client's, not the stored order's; checkoutId is absent, empty or an id
SuccessRequests ==
    {Request("payment_success", CustomerInfo("Ann", "Devon"), b[1], b[2], b[3]) :
        b \in {<<CandleA, FromDec(2739, 100), None>>,
               <<Votive, FromInt(1), "">>,
               <<CandleA, FromDec(2739, 100), "id-a">>,
               <<Votive, FromInt(1), "id-a">>,
               <<CandleA, FromDec(2739, 100), "id-b">>}}

Admit == Len(http) < MaxRequests

Next ==
    \E t \in Tasks :
        \/ Admit /\ \E customer \in LifeCustomers, cart \in LifeCarts :
                        CheckoutBegin(t, customer, cart, FromInt(1))
        \/ \E outcome \in Outcomes : CheckoutFinish(t, outcome)
        \/ Admit /\ \E checkout_id \in PathIds : GetOrder(t, checkout_id)
        \/ Admit /\ \E request \in SuccessRequests, sent \in BOOLEAN :
                        PaymentSuccessBegin(t, request, sent)
        \/ \E rendered \in BOOLEAN : PaymentSuccessLabel(t, rendered)
        \/ \E readable \in BOOLEAN, sent \in BOOLEAN :
                        PaymentSuccessAdmin(t, readable, sent)

Spec == Init /\ [][Next]_vars

\* checkouts only, over every cart and every state string of the model
MaxCheckouts == 1

NextPricing ==
    \E t \in Tasks :
        \/ Len(http) < MaxCheckouts
              /\ \E customer \in Customers, cart \in Carts :
                     CheckoutBegin(t, customer, cart, FromInt(1))
        \/ \E outcome \in Outcomes : CheckoutFinish(t, outcome)

SpecPricing == Init /\ [][NextPricing]_vars

\* ---------------------------------------------------------------------
\* Properties
\* ---------------------------------------------------------------------

\* the requests received for one handler, by number
Handled(handler) ==
    {rid \in DOMAIN http : http[rid].request.handler = handler}

Status(rid) == http[rid].response.status_code

\* ----- C1 -----
\* the rate per state string as the contract gives it: the table value
\* for an exact match, 0.07 otherwise
C1_Rate ==
    [s \in StateNames |->
        CASE s = "California" -> FromDec(750, 10000)
          [] s = "New York"   -> FromDec(400, 10000)
          [] s = "Texas"      -> FromDec(450, 10000)
          [] s = "Florida"    -> FromDec(600, 10000)
          [] s = "Illinois"   -> FromDec(625, 10000)
          [] s = "Nevada"     -> FromDec(685, 10000)
          [] s = "Washington" -> FromDec(650, 10000)
          [] OTHER            -> FromDec(700, 10000)]

C1_Tax == [cart \in Carts, s \in StateNames |->
              Round2(FMul(Subtotal(cart), C1_Rate[s]))]

C1_Shipping == [cart \in Carts |->
                   IF FLeq(Subtotal(cart), FromInt(50))
                   THEN FromDec(599, 100) ELSE FZero]

C1_Total == [cart \in Carts, s \in StateNames |->
                Round2(FAdd(FAdd(Subtotal(cart), C1_Tax[cart, s]),
                            C1_Shipping[cart]))]

C1_Subtotal == [cart \in Carts |-> Subtotal(cart)]

C1_Total2739 == FromDec(2739, 100)

C1_Total2749 == FromDec(2749, 100)

\* C1: every stored order holds subtotal = sum of price*qty, tax =
\* round(subtotal * rate, 2) with the rate of the exactly matching table
\* key or 0.07, shipping = 5.99 iff subtotal <= 50 and else 0, total =
\* round(subtotal + tax + shipping, 2); two items at 10.00 total 27.39
\* for an unmatched state and 27.49 for California (0.075).
C1_StoredPricing ==
    \A id \in DOMAIN ORDERS_DB :
        LET order == ORDERS_DB[id]
            state == order.customer.state
        IN  /\ order.subtotal = C1_Subtotal[order.cart]
            /\ order.tax = C1_Tax[order.cart, state]
            /\ order.shipping = C1_Shipping[order.cart]
            /\ order.total = C1_Total[order.cart, state]
            /\ (order.cart = CandleA /\ state \in {"california", "Devon"})
                   => order.total = C1_Total2739
            /\ (order.cart = CandleA /\ state = "California")
                   => order.total = C1_Total2749

\* an order for two items at 10.00 and a state string that matches no
\* key only by its case is stored with total 27.39
C1_Witness ==
    \E id \in DOMAIN ORDERS_DB :
        /\ ORDERS_DB[id].cart = CandleA
        /\ ORDERS_DB[id].customer.state = "california"
        /\ ORDERS_DB[id].total = C1_Total2739

\* ----- C2 -----
C2_Half == FromDec(50, 100)

C2_Below == [cart \in Carts |-> FLess(Subtotal(cart), C2_Half)]

C2_Exactly == [cart \in Carts |-> Subtotal(cart) = C2_Half]

C2_Checkouts(log) ==
    {rid \in DOMAIN log : log[rid].request.handler = "create_checkout_session"}

\* the below-minimum checkout is answered 400 and never reaches the
\* processor; the checkout at exactly 0.50 does reach it
C2_Answer ==
    \A rid \in C2_Checkouts(http) :
        /\ C2_Below[http[rid].request.cart]
              => Status(rid) = 400 /\ rid \notin DOMAIN stripe
        /\ C2_Exactly[http[rid].request.cart] => rid \in DOMAIN stripe

\* the step that takes up a below-minimum checkout changes neither the
\* processor's calls nor the store
C2_Step ==
    \A rid \in C2_Checkouts(http') \ DOMAIN http :
        C2_Below[http'[rid].request.cart]
            => stripe' = stripe /\ ORDERS_DB' = ORDERS_DB

\* C2: a checkout whose subtotal is below 0.50 is rejected with an error,
\* no processor session-creation call is made for it and ORDERS_DB is
\* unchanged; a subtotal of exactly 0.50 passes the check.
C2_MinimumCharge == [](C2_Answer) /\ [][C2_Step]_vars

\* a 0.49 cart was rejected while an order was in the store, and a 0.50
\* cart was passed to the processor
C2_Witness ==
    /\ \E rid \in C2_Checkouts(http) :
          /\ http[rid].request.cart = Votive
          /\ Status(rid) = 400
          /\ http[rid].db_keys # {}
          /\ DOMAIN ORDERS_DB = http[rid].db_keys
    /\ \E rid \in DOMAIN stripe : http[rid].request.cart = Tealights

\* ----- C3 -----
\* the checkouts that answered 200 and issued id
C3_Issued(id) ==
    {rid \in DOMAIN stripe :
        stripe[rid].checkout_id = id /\ Status(rid) = 200}

\* the record checkout rid created: its request's customer and cart and
\* the amounts computed from them
C3_Record(rid) ==
    [id       |-> stripe[rid].checkout_id,
     customer |-> http[rid].request.customer,
     cart     |-> http[rid].request.cart,
     subtotal |-> Quote[http[rid].request.cart, http[rid].request.customer.state].subtotal,
     tax      |-> Quote[http[rid].request.cart, http[rid].request.customer.state].tax,
     shipping |-> Quote[http[rid].request.cart, http[rid].request.customer.state].shipping,
     total    |-> Quote[http[rid].request.cart, http[rid].request.customer.state].total]

\* C3: in every reachable state get_order(id) is 404 'Order not found' for
\* an id no successful checkout issued, and for an issued id it is the
\* record that checkout created, total included; the answers get_order
\* has given say the same.
C3_OrderLookup ==
    /\ \A id \in PathIds :
          IF C3_Issued(id) = {}
          THEN /\ get_order(id).status_code = 404
               /\ get_order(id).body = [detail |-> "Order not found"]
          ELSE \A rid \in C3_Issued(id) :
                  /\ get_order(id).status_code = 200
                  /\ get_order(id).body = C3_Record(rid)
    /\ \A rid \in Handled("get_order") :
          IF http[rid].request.checkoutId \in http[rid].db_keys
          THEN /\ Status(rid) = 200
               /\ \E r \in C3_Issued(http[rid].request.checkoutId) :
                     http[rid].response.body = C3_Record(r)
          ELSE /\ Status(rid) = 404
               /\ http[rid].response.body = [detail |-> "Order not found"]

\* an order was fetched, and found, after a payment-success call for it
\* had completed
C3_Witness ==
    \E rid \in Handled("get_order"), paid \in Handled("payment_success") :
        /\ paid < rid
        /\ Status(paid) = 200
        /\ Status(rid) = 200
        /\ http[paid].request.checkoutId = http[rid].request.checkoutId

\* ----- C4 -----
\* the checkoutId of request rid is absent, empty or not a key of
\* ORDERS_DB when the handler starts
C4_Unknown(log, rid) ==
    \/ log[rid].request.checkoutId = None
    \/ log[rid].request.checkoutId = ""
    \/ log[rid].request.checkoutId \notin log[rid].db_keys

C4_Answer ==
    /\ \A rid \in Handled("payment_success") :
          C4_Unknown(http, rid)
             => /\ Status(rid) = 404
                /\ http[rid].response.body = [detail |-> "Order not found"]
                /\ \A m \in mails : m.rid # rid
                /\ \A l \in labels : l.rid # rid
    /\ \A m \in mails : m.html.order_id \in DOMAIN ORDERS_DB
    /\ \A l \in labels : l.order_id \in DOMAIN ORDERS_DB

C4_Step ==
    \A rid \in DOMAIN http' \ DOMAIN http :
        (http'[rid].request.handler = "payment_success" /\ C4_Unknown(http', rid))
            => mails' = mails /\ labels' = labels /\ ORDERS_DB' = ORDERS_DB

\* C4: payment_success with an absent, empty or unknown checkoutId answers
\* 404 and has no side effect (no e-mail attempt, no label, ORDERS_DB
\* unchanged); every e-mail attempt and every label refers to a stored
\* order id.
C4_UnknownOrder == [](C4_Answer) /\ [][C4_Step]_vars

\* a payment-success call named an id that was not in the store and got
\* 404, while the store held an order and mails had been attempted
C4_Witness ==
    \E rid \in Handled("payment_success") :
        /\ http[rid].request.checkoutId \in OrderIds
        /\ http[rid].request.checkoutId \notin http[rid].db_keys
        /\ http[rid].db_keys # {}
        /\ Status(rid) = 404
        /\ mails # {}

\* ----- C5 -----
\* the payment_success calls made for id while it was in the store
C5_Calls(id) ==
    {rid \in Handled("payment_success") :
        http[rid].request.checkoutId = id /\ id \in http[rid].db_keys}

C5_CustomerMails(rid) ==
    {m \in mails : m.rid = rid /\ m.to_email = http[rid].request.client_email}

C5_AdminMails(rid) == {m \in mails : m.rid = rid /\ m.to_email = ADMIN_EMAIL}

C5_Labels(rid) == {l \in labels : l.rid = rid}

\* C5: every payment_success call for a stored id attempts one customer
\* e-mail, one label and one admin e-mail of its own, however many calls
\* were made for that id before or at the same time: two calls make two
\* of each.
C5_NotIdempotent ==
    \A id \in OrderIds :
        /\ \A rid \in C5_Calls(id) :
              /\ Cardinality(C5_CustomerMails(rid)) = 1
              /\ Status(rid) \in {0, 200}
              /\ Status(rid) = 200
                    => /\ Cardinality(C5_Labels(rid)) = 1
                       /\ Cardinality(C5_AdminMails(rid)) = 1
        /\ Cardinality({m \in mails : m.html.order_id = id
                                      /\ m.to_email # ADMIN_EMAIL})
              = Cardinality(C5_Calls(id))

\* two calls for one id, both completed: two
\* customer mails, two labels, two admin mails
C5_Witness ==
    \E id \in OrderIds :
        /\ Cardinality({rid \in C5_Calls(id) : Status(rid) = 200}) = 2
        /\ Cardinality({m \in mails : m.html.order_id = id
                                      /\ m.to_email = ADMIN_EMAIL}) = 2
        /\ Cardinality({l \in labels : l.order_id = id}) = 2
        /\ Cardinality({m \in mails : m.html.order_id = id
                                      /\ m.to_email # ADMIN_EMAIL}) = 2

\* ----- C6 -----
\* C6: every failure inside create_checkout_session (the sub-minimum
\* subtotal, the processor error and the status-500 error raised by
\* create_payment_link) is answered with status 400; the endpoint answers
\* nothing but 200 and 400.
C6_Always400 ==
    \A rid \in Handled("create_checkout_session") :
        /\ Status(rid) \in {0, 200, 400}
        /\ rid \notin DOMAIN stripe => Status(rid) = 400
        /\ rid \in DOMAIN stripe =>
              /\ stripe[rid].outcome = "pending" => Status(rid) = 0
              /\ stripe[rid].outcome = "ok" => Status(rid) = 200
              /\ stripe[rid].outcome \in {"StripeError", "Exception"}
                    => Status(rid) = 400

\* create_payment_link raised its status-500 error and the caller got a
\* 400 whose detail is that error's text
C6_Witness ==
    \E rid \in DOMAIN stripe :
        /\ stripe[rid].outcome = "Exception"
        /\ Status(rid) = 400
        /\ http[rid].response.body = [detail |-> <<500, "exception text">>]

\* ----- C7 -----
\* C7 as stated: when the processor's session-creation call is made for an
\* order id, that id is already a key of ORDERS_DB.
C7_StoredBeforeCall == \A rid \in DOMAIN stripe : stripe[rid].stored

\* C7 amended: the order is recorded only after the session-creation call
\* has returned: when the call is made the id is not a key of ORDERS_DB,
\* while it is pending it is not a key, and afterwards it is a key iff
\* the call succeeded.
C7_StoredAfterCall ==
    \A rid \in DOMAIN stripe :
        /\ ~stripe[rid].stored
        /\ stripe[rid].checkout_id \in DOMAIN ORDERS_DB
              <=> stripe[rid].outcome = "ok"

\* one call is waiting on the processor with its id not in the store,
\* another has failed and left no order
C7_Witness ==
    \E rid, failed \in DOMAIN stripe :
        /\ stripe[rid].outcome = "pending"
        /\ stripe[rid].checkout_id \notin DOMAIN ORDERS_DB
        /\ stripe[failed].outcome = "StripeError"
        /\ stripe[failed].checkout_id \notin DOMAIN ORDERS_DB

\* ----- C8 -----
\* the item lines and amounts of the receipt for a stored order
C8_Lines(order) ==
    [i \in 1..Len(order.cart) |->
        [qty    |-> order.cart[i].qty,
         name   |-> order.cart[i].name,
         amount |-> LineAmount[order.cart[i]]]]

\* C8: the item lines, subtotal, tax, shipping and total of every receipt
\* mail are those of the order stored under the id the call named,
\* whatever cart and total the payment_success body carried.
C8_ReceiptFromStore ==
    \A m \in mails :
        /\ m.html.order_id = http[m.rid].request.checkoutId
        /\ m.html.items = C8_Lines(ORDERS_DB[m.html.order_id])
        /\ m.html.subtotal = TwoDecimals[ORDERS_DB[m.html.order_id].subtotal]
        /\ m.html.tax = TwoDecimals[ORDERS_DB[m.html.order_id].tax]
        /\ m.html.shipping = TwoDecimals[ORDERS_DB[m.html.order_id].shipping]
        /\ m.html.total = TwoDecimals[ORDERS_DB[m.html.order_id].total]

\* two calls for one id whose bodies differ in cart and total, neither
\* body's cart or total being the stored order's, got the same receipt
C8_Witness ==
    \E m1, m2 \in mails :
        /\ m1.html.order_id = m2.html.order_id
        /\ http[m1.rid].request.cart # http[m2.rid].request.cart
        /\ http[m1.rid].request.total # http[m2.rid].request.total
        /\ http[m1.rid].request.cart # ORDERS_DB[m1.html.order_id].cart
        /\ http[m2.rid].request.cart # ORDERS_DB[m1.html.order_id].cart
        /\ m1.html.items = m2.html.items
        /\ m1.html.total = m2.html.total

\* ----- C9 -----
\* the calls for a stored id
C9_Calls ==
    {rid \in Handled("payment_success") :
        http[rid].request.checkoutId \in http[rid].db_keys}

C9_LabelMade(rid) == \E l \in labels : l.rid = rid /\ l.label # 0

\* customer mail, then label, then admin mail; the admin mail is attempted
\* whatever the first two gave, and the call answers success
C9_Ordered ==
    /\ \A l \in labels :
          \E m \in mails : m.rid = l.rid /\ m.to_email # ADMIN_EMAIL
    /\ \A m \in mails :
          m.to_email = ADMIN_EMAIL => \E l \in labels : l.rid = m.rid
    /\ \A rid \in C9_Calls :
          /\ Status(rid) \in {0, 200}
          /\ Status(rid) = 200 <=>
                \E m \in mails : m.rid = rid /\ m.to_email = ADMIN_EMAIL
          /\ Status(rid) = 200 =>
                http[rid].response.body.status = "success"

\* C9 as stated: notification is ordered and best-effort, the call always
\* answers success, and the admin e-mail carries an attachment if and only
\* if label generation succeeded.
C9_AttachmentIffLabel ==
    /\ C9_Ordered
    /\ \A m \in mails :
          m.to_email = ADMIN_EMAIL
             => (m.attached # <<>> <=> C9_LabelMade(m.rid))

\* C9 amended: notification is ordered and best-effort and the call always
\* answers success; the admin e-mail is given the label file to attach if
\* and only if label generation succeeded, and carries it unless reading
\* the file fails, in which case it is attempted without an attachment.
C9_BestEffort ==
    /\ C9_Ordered
    /\ \A m \in mails :
          m.to_email = ADMIN_EMAIL
             => /\ m.attachments # <<>> <=> C9_LabelMade(m.rid)
                /\ m.attached \in {m.attachments, <<>>}

\* both sends failed, the label was made but could not be read into the
\* admin mail, and the call answered success
C9_Witness ==
    \E rid \in C9_Calls :
        /\ Status(rid) = 200
        /\ C9_LabelMade(rid)
        /\ \A m \in mails : m.rid = rid => ~m.sent /\ m.attached = <<>>
        /\ \E m \in mails : m.rid = rid /\ m.attachments # <<>>

\* ----- C10 -----
\* sum of unit_amount * quantity over the first n line items
RECURSIVE C10_ChargeUpTo(_, _)
C10_ChargeUpTo(line_items, n) ==
    IF n = 0 THEN 0
    ELSE C10_ChargeUpTo(line_items, n - 1)
         + line_items[n].unit_amount * line_items[n].quantity

\* C10 as stated: for every successful checkout the sum of unit_amount *
\* quantity over the line items sent to the processor equals the stored
\* order's total in minor units.
C10_ChargeEqualsTotal ==
    \A rid \in DOMAIN stripe :
        stripe[rid].outcome = "ok"
           => C10_ChargeUpTo(stripe[rid].line_items, Len(stripe[rid].line_items))
                 = TwoDecimals[ORDERS_DB[stripe[rid].checkout_id].total]

====
